---- MODULE Spec2Model ----
(***************************************************************************)
(* A model of the malware scanner's queue: the skylinks collection, the    *)
(* HTTP handlers that feed it, and the three background loops (scan,       *)
(* unlocker, reporter) that work on it.                                    *)
(*                                                                         *)
(* Time is a counter whose unit is the scan timeout (CancelScanAfter), the *)
(* period of the unlocker's ticker.  The sleeps of the scan loop and of    *)
(* the reporter loop are far shorter than that unit, so their timers may   *)
(* fire at any moment.  Every call to the database may fail with a         *)
(* transport error and then changes nothing.                               *)
(*                                                                         *)
(* Spec is the program as main starts it, with a context nobody cancels.   *)
(* SpecCancel adds the owner of the context cancelling it.  SpecLocked     *)
(* adds to Spec a second initial state, in which SweepAndScan holds a      *)
(* locked record: SweepAndLock never hands one over, so the code after     *)
(* the lock is exercised from that state only.  SpecSweep runs concurrent  *)
(* callers of SweepAndLock against collections of every content.           *)
(***************************************************************************)
EXTENDS Integers, Sequences, FiniteSets, TLC

\* ------------------------------------------------------------------ bounds

\* The clock runs from 1 to MaxTime.
MaxTime == 3
\* The number of records the collection may hold.
MaxItems == 2
\* The number of HTTP requests the server receives.
MaxRequests == 2

\* ------------------------------------------------------- program constants

\* The age after which a scan counts as stuck, in clock units.
CancelScanAfter == 1
\* Sleeps, in units of 100 ms.
sleepBetweenScans == 100
sleepOnErrStep == 1
sleepOnErrSteps == 3
\* The number of nested v2 skylinks resolveSkylinkV2 follows.
resolveAttempts == 3

SkylinkStatusNew == "new"
SkylinkStatusScanning == "scanning"
SkylinkStatusComplete == "complete"
SkylinkStatusUnreported == "unreported"

ErrNoDocumentsFound == "no documents found"
ErrNoDocuments == "mongo: no documents in result"
ErrInvalidSkylink == "invalid skylink"
ErrInvalidSkylinkVersion == "skylink has invalid version"
\* A transport error of the database driver.
ErrStore == "store error"

\* The zero value of time.Time.
ZeroTime == 0

\* --------------------------------------------------------------- skylinks

\* The strings a caller may submit: two v1 skylinks with the same merkle
\* root (different offsets), a v2 skylink the portal resolves, one it does
\* not, and a string that is no skylink.
SkylinkStrings == {"a", "a2", "v", "w", "bad"}

\* The version 1 and the version 2 skylink strings of the model.
V1Strings == {"a", "a2", "b"}
V2Strings == {"v", "w", "x", "y"}

\* accdb.ValidSkylinkHash: the syntactic check.
ValidSkylinkHash(s) == s \in V1Strings \cup V2Strings

\* skymodules.Skylink.LoadString: version and merkle root encoded in the string.
SkylinkOf(s) ==
    CASE s = "a"  -> [version |-> 1, root |-> 1]
      [] s = "a2" -> [version |-> 1, root |-> 1]
      [] s = "b"  -> [version |-> 1, root |-> 2]
      [] s = "v"  -> [version |-> 2, root |-> 3]
      [] s = "w"  -> [version |-> 2, root |-> 4]
      [] s = "x"  -> [version |-> 2, root |-> 5]
      [] s = "y"  -> [version |-> 2, root |-> 6]
      [] OTHER    -> [version |-> 0, root |-> 0]

\* crypto.HashObject of a merkle root: injective, and no root is its own hash.
HashObject(root) == 100 + root

\* A portal's answer to HEAD {portal}/{s}: a transport error, or the
\* skynet-skylink header of the response.
Answer(header) == [err |-> "nil", header |-> header]
HeadFailed == [err |-> "failed to download metadata", header |-> ""]

\* The header of the program's portal for s.
PortalHeader(s) == IF s = "v" THEN "a" ELSE ""

\* The portal the program is configured with.
Portal == [s \in V2Strings |-> Answer(PortalHeader(s))]

\* recursivelyResolveSkylinkV2: the v1 skylink a v2 skylink points to on the
\* given portal, and the number of HEAD requests made.
RECURSIVE recursivelyResolveSkylinkV2(_, _, _)
recursivelyResolveSkylinkV2(s, portal, attemptsLeft) ==
    IF attemptsLeft < 1
    THEN [err |-> "v2 skylinks are nested too deeply", skylink |-> "", heads |-> 0]
    ELSE IF SkylinkOf(s).version # 2
    THEN [err |-> ErrInvalidSkylinkVersion, skylink |-> "", heads |-> 0]
    ELSE LET resp == portal[s]
             skylinkHeader == resp.header
         IN
         IF resp.err # "nil"
         THEN [err |-> resp.err, skylink |-> "", heads |-> 1]
         ELSE IF skylinkHeader = ""
         THEN [err |-> "empty skynet-skylink header", skylink |-> "", heads |-> 1]
         ELSE IF SkylinkOf(skylinkHeader).version = 0
         THEN [err |-> ErrInvalidSkylink, skylink |-> "", heads |-> 1]
         ELSE IF SkylinkOf(skylinkHeader).version = 2
         THEN LET r == recursivelyResolveSkylinkV2(skylinkHeader, portal,
                                                   attemptsLeft - 1)
              IN  [r EXCEPT !.heads = @ + 1]
         ELSE [err |-> "nil", skylink |-> skylinkHeader, heads |-> 1]

\* Seeded fault for C18_ResolveDepth: one more level of nesting.
resolveSkylinkV2Deeper(s, portal) ==
    recursivelyResolveSkylinkV2(s, portal, resolveAttempts + 1)

resolveSkylinkV2(s, portal) == recursivelyResolveSkylinkV2(s, portal, resolveAttempts)

\* The zero value of the Skylink struct.
NoSkylink ==
    [ID |-> 0, Hash |-> 0, Skylink |-> "", Status |-> "", Infected |-> FALSE,
     InfectionDescription |-> "", ScannedAllContent |-> FALSE,
     ScannedAllOffsets |-> FALSE, Size |-> 0, Category |-> "",
     Timestamp |-> ZeroTime]

\* Seeded fault for C38_LoadStringKeepsSetFields: a LoadString that always
\* sets the timestamp and the status.
LoadStringOverwrites(rec, skylink, portal, t) ==
    IF ~ValidSkylinkHash(skylink) THEN [err |-> ErrInvalidSkylink, sl |-> rec]
    ELSE
    LET s1 == [rec EXCEPT !.Skylink = skylink]
        sl == SkylinkOf(skylink)
        res == resolveSkylinkV2(skylink, portal)
    IN  IF sl.version = 0 THEN [err |-> ErrInvalidSkylink, sl |-> s1]
        ELSE IF sl.version = 2 /\ res.err # "nil"
        THEN [err |-> "unable to resolve v2 skylink", sl |-> s1]
        ELSE IF sl.version \notin {1, 2}
        THEN [err |-> ErrInvalidSkylinkVersion, sl |-> s1]
        ELSE [err |-> "nil",
              sl |-> [s1 EXCEPT !.Hash = HashObject(sl.root),
                                !.Timestamp = t,
                                !.Status = SkylinkStatusNew]]

\* Seeded fault for C20_BadRequestWritesNothing: a LoadString that does not
\* resolve v2 skylinks.
LoadStringUnresolved(rec, skylink, portal, t) ==
    [err |-> IF ValidSkylinkHash(skylink) THEN "nil" ELSE ErrInvalidSkylink,
     sl |-> [rec EXCEPT !.Skylink = skylink,
                        !.Hash = HashObject(SkylinkOf(skylink).root),
                        !.Timestamp = t,
                        !.Status = SkylinkStatusNew]]

\* Skylink.LoadString on record rec at time t: [err, sl].
LoadString(rec, skylink, portal, t) ==
    IF ~ValidSkylinkHash(skylink) THEN [err |-> ErrInvalidSkylink, sl |-> rec]
    ELSE
    LET s1 == [rec EXCEPT !.Skylink = skylink]
        sl == SkylinkOf(skylink)
        res == resolveSkylinkV2(skylink, portal)
    IN  IF sl.version = 0 THEN [err |-> ErrInvalidSkylink, sl |-> s1]
        ELSE IF sl.version = 2 /\ res.err # "nil"
        THEN [err |-> "unable to resolve v2 skylink", sl |-> s1]
        ELSE IF sl.version \notin {1, 2}
        THEN [err |-> ErrInvalidSkylinkVersion, sl |-> s1]
        ELSE
        \* The hash set in the switch is overwritten after it with the hash of
        \* the loaded skylink's own merkle root.
        LET s2 == [s1 EXCEPT !.Hash = HashObject(sl.root)]
            s3 == IF s2.Timestamp = ZeroTime THEN [s2 EXCEPT !.Timestamp = t] ELSE s2
            s4 == IF s3.Status = "" THEN [s3 EXCEPT !.Status = SkylinkStatusNew] ELSE s3
        IN  [err |-> "nil", sl |-> s4]

\* parseSkylink of the handlers.
parseSkylink(s, t) ==
    IF s = "" THEN [err |-> "empty skylink", sl |-> NoSkylink]
    ELSE LoadString(NoSkylink, s, Portal, t)

\* ------------------------------------------------------- the collection

Min(S) == CHOOSE x \in S : \A y \in S : x <= y

\* A bson "$set": document d with the fields of upd set.
Set(d, upd) == [f \in DOMAIN d |-> IF f \in DOMAIN upd THEN upd[f] ELSE d[f]]

\* Collection.FindOne, given the positions m of the documents that match the
\* filter: the first of them, in natural order.
FindOne(coll, m) ==
    IF m = {}
    THEN [err |-> ErrNoDocuments, doc |-> NoSkylink]
    ELSE [err |-> "nil", doc |-> coll[Min(m)]]

\* The name ensureDBSchema gives the unique index on hash.
UniqueHashIndex == "hash_unique"
\* The index name SkylinkCreate looks for in a duplicate key error.
SquelchedIndex == "skylink_unique"

\* The driver's error for a write that violates unique index `index`.
DuplicateKeyError(index) ==
    IF index = "hash_unique"
    THEN "E11000 duplicate key error collection: scanner.skylinks index: hash_unique"
    ELSE "E11000 duplicate key error collection: scanner.skylinks index: skylink_unique"

\* Collection.InsertOne: a document without _id gets a fresh one; a document
\* whose hash is in the collection violates the unique index.
InsertOne(coll, doc) ==
    IF \E i \in 1..Len(coll) : coll[i].Hash = doc.Hash
    THEN [coll |-> coll, err |-> DuplicateKeyError(UniqueHashIndex)]
    ELSE [coll |-> Append(coll, IF doc.ID = 0
                                THEN [doc EXCEPT !.ID = Len(coll) + 1]
                                ELSE doc),
          err |-> "nil"]

\* Collection.UpdateOne without the upsert option, given the positions m of
\* the documents that match the filter: "$set" upd on the first of them.
\* UpsertedCount counts the documents an upsert inserted: none here.
UpdateOne(coll, m, upd) ==
    IF m = {}
    THEN [coll |-> coll, MatchedCount |-> 0, ModifiedCount |-> 0,
          UpsertedCount |-> 0, UpsertedID |-> 0]
    ELSE [coll |-> [coll EXCEPT ![Min(m)] = Set(coll[Min(m)], upd)],
          MatchedCount |-> 1,
          ModifiedCount |-> IF Set(coll[Min(m)], upd) = coll[Min(m)] THEN 0 ELSE 1,
          UpsertedCount |-> 0, UpsertedID |-> 0]

\* Collection.UpdateMany: "$set" upd on every document at a position of m.
UpdateMany(coll, m, upd) ==
    [coll |-> [i \in 1..Len(coll) |-> IF i \in m THEN Set(coll[i], upd) ELSE coll[i]],
     ModifiedCount |-> Cardinality({i \in m : Set(coll[i], upd) # coll[i]})]

\* Collection.ReplaceOne with Upsert and the filter {_id: doc.ID}: the
\* document with that _id is replaced as a whole, whatever it holds.
ReplaceOne(coll, doc) ==
    LET m == {i \in 1..Len(coll) : coll[i].ID = doc.ID} IN
    IF m = {} THEN InsertOne(coll, doc)
    ELSE IF \E i \in 1..Len(coll) : i \notin m /\ coll[i].Hash = doc.Hash
    THEN [coll |-> coll, err |-> DuplicateKeyError(UniqueHashIndex)]
    ELSE [coll |-> [coll EXCEPT ![Min(m)] = doc], err |-> "nil"]

\* ------------------------------------------------------------ the DB type

\* The documents of coll whose hash is h (the filter {hash: h}).
ByHash(coll, h) == {i \in 1..Len(coll) : coll[i].Hash = h}
\* The documents of coll whose skylink string is s (the filter {skylink: s}).
BySkylink(coll, s) == {i \in 1..Len(coll) : coll[i].Skylink = s}
\* The documents of coll whose _id is id (the filter {_id: id}).
ByID(coll, id) == {i \in 1..Len(coll) : coll[i].ID = id}
\* The documents of coll in status st (the filter {status: st}).
ByStatus(coll, st) == {i \in 1..Len(coll) : coll[i].Status = st}

\* DB.Skylink, as the handlers call it: the record with the skylink string.
DBSkylink(coll, skylink) == FindOne(coll, BySkylink(coll, skylink))

\* DB.SkylinkByID.
SkylinkByID(coll, id) == FindOne(coll, ByID(coll, id))

\* DB.SkylinkCreate, its first database call: the lookup by hash.  findErr
\* is the error of FindOne; anything but ErrNoDocuments ends the call.
SkylinkCreateFound(findErr) ==
    IF findErr # ErrNoDocuments THEN "skylink already exists" ELSE "nil"

\* Seeded fault for C8_EnqueueKeepsExisting: an insert that overwrites the
\* record with the same hash.
SkylinkCreateUpsert(coll, skylink) ==
    IF ByHash(coll, skylink.Hash) = {} THEN InsertOne(coll, skylink)
    ELSE [coll |-> [coll EXCEPT ![Min(ByHash(coll, skylink.Hash))] =
                      [skylink EXCEPT !.ID = @ + Min(ByHash(coll, skylink.Hash))]],
          err |-> "nil"]

\* DB.SkylinkCreate, its second database call: the insert.  A duplicate key
\* error is squelched when it names the index SkylinkCreate looks for.
SkylinkCreateInsert(coll, skylink) ==
    LET r == InsertOne(coll, skylink) IN
    IF r.err # "nil" /\ r.err = DuplicateKeyError(SquelchedIndex)
    THEN [coll |-> r.coll, err |-> "nil"]
    ELSE r

\* DB.SkylinkSave.
SkylinkSave(coll, skylink) ==
    LET r == ReplaceOne(coll, skylink) IN
    [coll |-> r.coll, err |-> IF r.err # "nil" THEN "failed to save" ELSE "nil"]

\* Seeded fault for C3_StatusEdges: the filter without its status condition.
CancelStuckScansAnyStatus(coll, t) ==
    {i \in 1..Len(coll) : coll[i].Timestamp > t - CancelScanAfter}

\* The filter of DB.CancelStuckScans at time t.
CancelStuckScansFilter(coll, t) ==
    {i \in 1..Len(coll) : /\ coll[i].Status = SkylinkStatusScanning
                          /\ coll[i].Timestamp > t - CancelScanAfter}

\* DB.CancelStuckScans at time t: [coll, n].
CancelStuckScans(coll, t) ==
    LET ur == UpdateMany(coll, CancelStuckScansFilter(coll, t),
                         [Timestamp |-> t, Status |-> SkylinkStatusNew])
    IN  [coll |-> ur.coll, n |-> ur.ModifiedCount]

\* The UpdateOne of DB.SweepAndLock at time t.
SweepAndLockUpdate(coll, t) ==
    UpdateOne(coll, ByStatus(coll, SkylinkStatusNew),
              [Timestamp |-> t, Status |-> SkylinkStatusScanning])

\* DB.SweepAndLock at time t: [coll, sl, err].
SweepAndLock(coll, t) ==
    LET ur == SweepAndLockUpdate(coll, t)
    IN  IF ur.UpsertedCount = 0
        THEN [coll |-> ur.coll, sl |-> NoSkylink, err |-> ErrNoDocumentsFound]
        ELSE [coll |-> ur.coll,
              sl   |-> SkylinkByID(ur.coll, ur.UpsertedID).doc,
              err  |-> SkylinkByID(ur.coll, ur.UpsertedID).err]

\* ------------------------------------------------------------------ state

\* The slots of HTTP requests in flight.
Requests == {"r1", "r2"}
\* The concurrent callers of SweepAndLock in SpecSweep.
Callers == {"c1", "c2"}

VARIABLES
    skylinks,           \* the skylinks collection, in natural order
    now,                \* the clock
    ticker,             \* a tick of the unlocker's ticker is waiting
    ctxDone,            \* the context given to the Scanner is cancelled
    abort,              \* the abort channel: "open" or "closed"
    scanPc,             \* the scan loop: "select", "scan" or "done"
    sl,                 \* the record SweepAndScan holds
    first,              \* the scan loop's first
    sleepLength,        \* the scan loop's sleepLength
    numSubsequentErrs,  \* the scan loop's numSubsequentErrs
    unlockerPc,         \* the unlocker loop: "select" or "done"
    reportPc,           \* the reporting loop: "select", "find", "report" or "done"
    rsl,                \* the record SweepAndBlock holds
    count,              \* SweepAndBlock's count
    rfirst,             \* the reporting loop's first
    reqs,               \* the HTTP requests between two database calls
    nreq,               \* the number of HTTP requests received
    blocked,            \* the skylinks the blocker was told to block
    sweep,              \* the callers of SweepAndLock in SpecSweep
    resolving,          \* the call of the skylink parser in SpecResolve
    clam,               \* the call of ClamAV.Scan in SpecClam
    last                \* what the last step returned or answered

vars == <<skylinks, now, ticker, ctxDone, abort, scanPc, sl, first, sleepLength,
          numSubsequentErrs, unlockerPc, reportPc, rsl, count, rfirst, reqs,
          nreq, blocked, sweep, resolving, clam, last>>

scanVars == <<scanPc, sl, first, sleepLength, numSubsequentErrs>>
reportVars == <<reportPc, rsl, count, rfirst>>
envVars == <<now, ticker, ctxDone, abort>>
httpVars == <<reqs, nreq>>

\* What a step returned: the operation, its argument, the HTTP status code,
\* the error, the count it returned, and whether a database call of the step
\* failed with a transport error.
Event(op, arg, code, err, n, fault) ==
    [op |-> op, arg |-> arg, code |-> code, err |-> err, n |-> n, fault |-> fault]
NoEvent == Event("", "", 0, "", 0, FALSE)

IdleRequest == [op |-> "", sl |-> NoSkylink]
IdleCaller == [pc |-> "idle", sl |-> NoSkylink, err |-> ""]
NoSweep == [K |-> 0, call |-> [c \in Callers |-> IdleCaller]]
NoResolving ==
    [pc |-> "idle", skylink |-> "", portal |-> Portal, err |-> "", v1 |-> "",
     heads |-> 0, sl |-> NoSkylink]

\* No call of ClamAV.Scan.
NoClam ==
    [pc |-> "idle", openErr |-> "nil", result |-> <<>>, infected |-> FALSE,
     description |-> "", err |-> ""]

Init ==
    /\ skylinks = <<>>
    /\ now = 1
    /\ ticker = FALSE
    /\ ctxDone = FALSE
    /\ abort = "open"
    /\ scanPc = "select"
    /\ sl = NoSkylink
    /\ first = TRUE
    /\ sleepLength = sleepBetweenScans
    /\ numSubsequentErrs = 0
    /\ unlockerPc = "select"
    /\ reportPc = "select"
    /\ rsl = NoSkylink
    /\ count = 0
    /\ rfirst = TRUE
    /\ reqs = [r \in Requests |-> IdleRequest]
    /\ nreq = 0
    /\ blocked = {}
    /\ sweep = NoSweep
    /\ resolving = NoResolving
    /\ clam = NoClam
    /\ last = NoEvent

\* ------------------------------------------------------------ environment

\* Time passes by one unit; the unlocker's ticker fires (a tick that is not
\* taken is dropped).
Tick ==
    /\ now < MaxTime
    /\ now' = now + 1
    /\ ticker' = TRUE
    /\ last' = NoEvent
    /\ UNCHANGED <<skylinks, ctxDone, abort, scanVars, unlockerPc, reportVars,
                   httpVars, blocked, sweep, resolving, clam>>

\* The owner of the context cancels it.
Cancel ==
    /\ ~ctxDone
    /\ ctxDone' = TRUE
    /\ last' = NoEvent
    /\ UNCHANGED <<skylinks, now, ticker, abort, scanVars, unlockerPc,
                   reportVars, httpVars, blocked, sweep, resolving, clam>>

\* Seeded fault for C37_AbortClosedOnce: a watcher that does not wait for
\* the context.
CloseAbortUncancelled ==
    /\ abort = "open"
    /\ abort' = "closed"
    /\ last' = NoEvent
    /\ UNCHANGED <<skylinks, now, ticker, ctxDone, scanVars, unlockerPc,
                   reportVars, httpVars, blocked, sweep, resolving, clam>>

\* Seeded fault for C21_AbortClosedDuringScan: abort closed by the scan loop
\* itself, which it can do only between two calls of SweepAndScan.
CloseAbortBetweenScans ==
    /\ ctxDone
    /\ scanPc # "scan"
    /\ abort = "open"
    /\ abort' = "closed"
    /\ last' = NoEvent
    /\ UNCHANGED <<skylinks, now, ticker, ctxDone, scanVars, unlockerPc,
                   reportVars, httpVars, blocked, sweep, resolving, clam>>

\* Scanner.Start's watcher goroutine: <-ctx.Done(); close(abort).
CloseAbort ==
    /\ ctxDone
    /\ abort = "open"
    /\ abort' = "closed"
    /\ last' = NoEvent
    /\ UNCHANGED <<skylinks, now, ticker, ctxDone, scanVars, unlockerPc,
                   reportVars, httpVars, blocked, sweep, resolving, clam>>

\* ------------------------------------------------------------ ClamAV.Scan

\* clamd's result statuses.
RES_OK == "OK"
RES_FOUND == "FOUND"
RES_ERROR == "ERROR"

\* Seeded fault for C40_ScanVerdict: a loop over the results that does not
\* return at the first FOUND.
RECURSIVE ScanRangeToEnd(_, _, _)
ScanRangeToEnd(result, infected, description) ==
    IF result = <<>>
    THEN [infected |-> infected, description |-> description, err |-> "nil"]
    ELSE ScanRangeToEnd(Tail(result), infected \/ Head(result).Status = RES_FOUND,
                        Head(result).Description)

ScanToEnd(openErr, result) ==
    IF openErr # "nil" THEN [infected |-> FALSE, description |-> "", err |-> openErr]
    ELSE ScanRangeToEnd(result, FALSE, "")

\* The loop of ClamAV.Scan over the results still in the channel, with the
\* description it has so far.
RECURSIVE ScanRange(_, _)
ScanRange(result, description) ==
    IF result = <<>>
    THEN [infected |-> FALSE, description |-> description, err |-> "nil"]
    ELSE IF Head(result).Status = RES_FOUND
    THEN [infected |-> TRUE, description |-> Head(result).Description, err |-> "nil"]
    ELSE ScanRange(Tail(result), Head(result).Description)

\* ClamAV.Scan, given what ScanStream returns: its error and the results the
\* channel delivers until it is closed.
Scan(openErr, result) ==
    IF openErr # "nil" THEN [infected |-> FALSE, description |-> "", err |-> openErr]
    ELSE ScanRange(result, "")

\* --------------------------------------------------------- the scan loop

\* What ClamAV.ScanSkylink may return.
ScanOutcomes == {"clean", "partial", "infected", "error"}

\* What ScanSkylink returns in each outcome: a clean verdict that scanned all
\* the content or only a part of it, an infected verdict, an error.
ScanResult(outcome) ==
    CASE outcome = "clean" ->
           [infected |-> FALSE, description |-> "", size |-> 2, scannedSize |-> 2, err |-> "nil"]
      [] outcome = "partial" ->
           [infected |-> FALSE, description |-> "", size |-> 2, scannedSize |-> 1, err |-> "nil"]
      [] outcome = "infected" ->
           [infected |-> TRUE, description |-> "FOUND", size |-> 2, scannedSize |-> 2, err |-> "nil"]
      [] OTHER ->
           [infected |-> FALSE, description |-> "", size |-> 0, scannedSize |-> 0, err |-> "scan error"]

ScanResults == {ScanResult(outcome) : outcome \in ScanOutcomes}

\* Seeded fault for C35_PendingHasSkylink: a release after a scanner error
\* that drops the skylink string.
UnlockedWithoutSkylink(rec, t) ==
    [rec EXCEPT !.Status = SkylinkStatusNew, !.Timestamp = t, !.Skylink = ""]

\* Seeded fault for C13_ScanErrorUnlocks: an unlock that leaves the old
\* timestamp.
UnlockedKeepsTimestamp(rec, t) == [rec EXCEPT !.Status = SkylinkStatusNew]

\* SweepAndScan after a failed scan: the record it saves.
Unlocked(rec, t) == [rec EXCEPT !.Status = SkylinkStatusNew, !.Timestamp = t]

\* Seeded fault for C5_UnreportedIsInfected: a verdict that leaves clean
\* records unreported.
VerdictAlwaysUnreported(rec, res, t) ==
    [rec EXCEPT !.Status = SkylinkStatusUnreported,
                !.Infected = res.infected,
                !.InfectionDescription = res.description,
                !.Size = res.size,
                !.ScannedAllContent = (res.scannedSize = res.size),
                !.ScannedAllOffsets = FALSE,
                !.Timestamp = t]

\* Seeded fault for C11_CleanVerdict: a verdict that claims the whole content
\* was scanned whatever the scanner read.
VerdictAllContent(rec, res, t) ==
    LET s1 == [rec EXCEPT !.Status = SkylinkStatusUnreported]
        s2 == IF ~res.infected
              THEN [s1 EXCEPT !.Skylink = "", !.Status = SkylinkStatusComplete]
              ELSE s1
    IN  [s2 EXCEPT !.Infected = res.infected,
                   !.InfectionDescription = res.description,
                   !.Size = res.size,
                   !.ScannedAllContent = TRUE,
                   !.ScannedAllOffsets = FALSE,
                   !.Timestamp = t]

\* Seeded fault for C12_InfectedVerdict: a verdict that completes every
\* record and clears its skylink, infected or not.
VerdictClearsSkylink(rec, res, t) ==
    [rec EXCEPT !.Skylink = "",
                !.Status = SkylinkStatusComplete,
                !.Infected = res.infected,
                !.InfectionDescription = res.description,
                !.Size = res.size,
                !.ScannedAllContent = (res.scannedSize = res.size),
                !.ScannedAllOffsets = FALSE,
                !.Timestamp = t]

\* SweepAndScan after a scan: the record it saves.
Verdict(rec, res, t) ==
    LET s1 == [rec EXCEPT !.Status = SkylinkStatusUnreported]
        s2 == IF ~res.infected
              THEN [s1 EXCEPT !.Skylink = "", !.Status = SkylinkStatusComplete]
              ELSE s1
    IN  [s2 EXCEPT !.Infected = res.infected,
                   !.InfectionDescription = res.description,
                   !.Size = res.size,
                   !.ScannedAllContent = (res.scannedSize = res.size),
                   !.ScannedAllOffsets = FALSE,
                   !.Timestamp = t]

\* The scan loop after SweepAndScan returned err, with numSubsequentErrs = n:
\* the next sleepLength and numSubsequentErrs.
AfterSweep(err, n) ==
    IF err = ErrNoDocumentsFound
    THEN [sleepLength |-> sleepBetweenScans, numSubsequentErrs |-> 0]
    ELSE IF err # "nil"
    THEN [sleepLength |-> sleepOnErrStep * (10 ^ n),
          numSubsequentErrs |-> IF n + 1 > sleepOnErrSteps THEN sleepOnErrSteps
                                ELSE n + 1]
    ELSE [sleepLength |-> 0, numSubsequentErrs |-> 0]

\* SweepAndScan returns err to the loop, which goes to its next iteration.
\* The iteration has set numSubsequentErrs to 0 when it started.
ScanReturns(err, fault, outcome) ==
    /\ scanPc' = "select"
    /\ sl' = NoSkylink
    /\ first' = FALSE
    /\ sleepLength' =
         AfterSweep(err, IF scanPc = "select" THEN 0 ELSE numSubsequentErrs).sleepLength
    /\ numSubsequentErrs' =
         AfterSweep(err, IF scanPc = "select" THEN 0
                         ELSE numSubsequentErrs).numSubsequentErrs
    /\ last' = Event("SweepAndScan", outcome, 0, err, 0, fault)

\* Seeded fault for C29_EmptySkylinkRefused: a sweep that hands every locked
\* record to the scanner.
ScanLockedUnchecked(rec) ==
    /\ scanPc' = "scan"
    /\ sl' = rec
    /\ first' = FALSE
    /\ numSubsequentErrs' = 0
    /\ last' = Event("SweepAndLock", rec.Skylink, 0, "nil", 0, FALSE)
    /\ UNCHANGED sleepLength

\* SweepAndScan once SweepAndLock has returned the record rec: a record
\* without a skylink is refused, any other goes to the scanner.
ScanLocked(rec) ==
    IF rec.Skylink = "" THEN ScanReturns("empty skylink", FALSE, "")
    ELSE /\ scanPc' = "scan"
         /\ sl' = rec
         /\ first' = FALSE
         /\ numSubsequentErrs' = 0
         /\ last' = Event("SweepAndLock", rec.Skylink, 0, "nil", 0, FALSE)
         /\ UNCHANGED sleepLength

\* Seeded fault for C28_FirstIterationRuns: a loop whose first iteration
\* goes through the select as well.
ScanLoopSelectAlways ==
    \/ /\ ctxDone
       /\ scanPc' = "done"
       /\ numSubsequentErrs' = 0
       /\ last' = NoEvent
       /\ UNCHANGED <<skylinks, sl, first, sleepLength>>
    \/ \E storeErr \in BOOLEAN :
         LET r == IF storeErr
                  THEN [coll |-> skylinks, sl |-> NoSkylink, err |-> ErrStore]
                  ELSE SweepAndLock(skylinks, now)
         IN  /\ skylinks' = r.coll
             /\ IF r.err # "nil" THEN ScanReturns(r.err, storeErr, "")
                ELSE ScanLocked(r.sl)

\* An iteration starts: numSubsequentErrs := 0, the select (skipped when
\* first), then SweepAndScan up to the call of the scanner.
ScanLoopSelect ==
    \/ /\ ~first
       /\ ctxDone
       /\ scanPc' = "done"
       /\ numSubsequentErrs' = 0
       /\ last' = NoEvent
       /\ UNCHANGED <<skylinks, sl, first, sleepLength>>
    \/ \E storeErr \in BOOLEAN :
         LET r == IF storeErr
                  THEN [coll |-> skylinks, sl |-> NoSkylink, err |-> ErrStore]
                  ELSE SweepAndLock(skylinks, now)
         IN  /\ skylinks' = r.coll
             /\ IF r.err # "nil" THEN ScanReturns(r.err, storeErr, "")
                ELSE ScanLocked(r.sl)

\* The scanner returns and SweepAndScan saves the record.
ScanLoopScan ==
    \E outcome \in ScanOutcomes, storeErr \in BOOLEAN :
        LET res == ScanResult(outcome)
            rec == IF res.err # "nil" THEN Unlocked(sl, now) ELSE Verdict(sl, res, now)
            sv  == IF storeErr THEN [coll |-> skylinks, err |-> "failed to save"]
                   ELSE SkylinkSave(skylinks, rec)
        IN  /\ skylinks' = sv.coll
            /\ ScanReturns(sv.err, storeErr, outcome)

\* Seeded fault for C23_SingleFlight: a loop that starts the next iteration
\* while SweepAndScan is still waiting for the scanner.
ScanLoopOverlapping ==
    /\ CASE scanPc \in {"select", "scan"} -> ScanLoopSelect
         [] OTHER                         -> FALSE
    /\ UNCHANGED <<envVars, unlockerPc, reportVars, httpVars, blocked, sweep, resolving, clam>>

\* The scanning goroutine of Scanner.Start.
ScanLoop ==
    /\ CASE scanPc = "select" -> ScanLoopSelect
         [] scanPc = "locked" -> (ScanLocked(sl) /\ UNCHANGED skylinks)
         [] scanPc = "scan"   -> ScanLoopScan
         [] OTHER             -> FALSE
    /\ UNCHANGED <<envVars, unlockerPc, reportVars, httpVars, blocked, sweep, resolving, clam>>

\* ------------------------------------------------------ the unlocker loop

\* Seeded fault for C31_ErrorsKeepLoops: an unlocker that returns when
\* CancelStuckScans fails.
UnlockerSelectReturnsOnError ==
    \/ /\ ctxDone
       /\ unlockerPc' = "done"
       /\ last' = NoEvent
       /\ UNCHANGED <<skylinks, ticker>>
    \/ /\ ticker
       /\ ticker' = FALSE
       /\ \E storeErr \in BOOLEAN :
            IF storeErr
            THEN /\ last' = Event("CancelStuckScans", "", 0, ErrStore, 0, TRUE)
                 /\ unlockerPc' = "done"
                 /\ UNCHANGED skylinks
            ELSE /\ skylinks' = CancelStuckScans(skylinks, now).coll
                 /\ UNCHANGED unlockerPc
                 /\ last' = Event("CancelStuckScans", "", 0, "nil",
                                  CancelStuckScans(skylinks, now).n, FALSE)

\* The select of the unlocker, then CancelStuckScans.
UnlockerSelect ==
    \/ /\ ctxDone
       /\ unlockerPc' = "done"
       /\ last' = NoEvent
       /\ UNCHANGED <<skylinks, ticker>>
    \/ /\ ticker
       /\ ticker' = FALSE
       /\ UNCHANGED unlockerPc
       /\ \E storeErr \in BOOLEAN :
            IF storeErr
            THEN /\ last' = Event("CancelStuckScans", "", 0, ErrStore, 0, TRUE)
                 /\ UNCHANGED skylinks
            ELSE /\ skylinks' = CancelStuckScans(skylinks, now).coll
                 /\ last' = Event("CancelStuckScans", "", 0, "nil",
                                  CancelStuckScans(skylinks, now).n, FALSE)

\* The goroutine of Scanner.StartUnlocker.
StartUnlocker ==
    /\ CASE unlockerPc = "select" -> UnlockerSelect
         [] OTHER                 -> FALSE
    /\ UNCHANGED <<now, ctxDone, abort, scanVars, reportVars, httpVars, blocked,
                   sweep, resolving, clam>>

\* ----------------------------------------------------- the reporting loop

\* Seeded fault for C32_OnlyUnreportedPosted: a filter that does not look at
\* the status.
SweepAndBlockFilterAnyStatus(coll) ==
    {i \in 1..Len(coll) : coll[i].Skylink # ""}

\* The filter of SweepAndBlock: unreported records that still have a skylink.
SweepAndBlockFilter(coll) ==
    {i \in 1..Len(coll) : /\ coll[i].Status = SkylinkStatusUnreported
                          /\ coll[i].Skylink # ""}

\* Seeded fault for C15_ReportInOneWrite: an update that sets the status
\* alone and leaves the skylink to a later write.
SweepAndBlockUpdateStatusOnly == [Status |-> SkylinkStatusComplete]

\* Seeded fault for C16_ReporterProgress: an update that clears the skylink
\* and leaves the status.
SweepAndBlockUpdateSkylinkOnly == [Skylink |-> ""]

\* The update of SweepAndBlock: the "$set" it applies to a reported record.
SweepAndBlockUpdate == [Skylink |-> "", Status |-> SkylinkStatusComplete]

\* Seeded fault for C17_BlockerFailureStopsSweep: a return that loses the
\* count of the records reported so far.
BlockReturnsNoCount(n, err, fault) ==
    /\ reportPc' = "select"
    /\ rsl' = NoSkylink
    /\ count' = 0
    /\ rfirst' = FALSE
    /\ last' = Event("SweepAndBlock", "", 0, err, 0, fault)

\* SweepAndBlock returns (n, err) to the loop, which goes to its next iteration.
BlockReturns(n, err, fault) ==
    /\ reportPc' = "select"
    /\ rsl' = NoSkylink
    /\ count' = 0
    /\ rfirst' = FALSE
    /\ last' = Event("SweepAndBlock", "", 0, err, n, fault)

\* SweepAndBlock looks for a record to report.
SweepAndBlockFind(n) ==
    \E storeErr \in BOOLEAN :
        LET sr == IF storeErr THEN [err |-> ErrStore, doc |-> NoSkylink]
                  ELSE FindOne(skylinks, SweepAndBlockFilter(skylinks))
        IN  /\ UNCHANGED <<skylinks, blocked>>
            /\ IF sr.err = ErrNoDocuments THEN BlockReturns(n, "nil", FALSE)
               ELSE IF sr.err # "nil"
               THEN BlockReturns(n, "failed to fetch malicious skylink from db", TRUE)
               ELSE /\ reportPc' = "report"
                    /\ rsl' = sr.doc
                    /\ count' = n
                    /\ rfirst' = FALSE
                    /\ last' = NoEvent

\* An iteration starts: the select (skipped when first), then SweepAndBlock
\* up to its first database call.
ReportLoopSelect ==
    \/ /\ ~rfirst
       /\ ctxDone
       /\ reportPc' = "done"
       /\ last' = NoEvent
       /\ UNCHANGED <<skylinks, blocked, rsl, count, rfirst>>
    \/ SweepAndBlockFind(0)

\* reportToBlocker answers, then SweepAndBlock marks the record as reported.
SweepAndBlockReport ==
    \E blockerOK \in BOOLEAN, storeErr \in BOOLEAN :
        IF ~blockerOK
        THEN /\ BlockReturns(count, "blocker error", FALSE)
             /\ UNCHANGED <<skylinks, blocked>>
        ELSE /\ blocked' = blocked \cup {rsl.Skylink}
             /\ IF storeErr
                THEN /\ BlockReturns(count, "failed to update the skylink's status in db",
                                     TRUE)
                     /\ UNCHANGED skylinks
                ELSE /\ skylinks' = UpdateOne(skylinks, ByID(skylinks, rsl.ID),
                                              SweepAndBlockUpdate).coll
                     /\ reportPc' = "find"
                     /\ count' = count + 1
                     /\ last' = Event("UpdateOneSkylink", rsl.Skylink, 0, "nil", 0, FALSE)
                     /\ UNCHANGED <<rsl, rfirst>>

\* The reporting goroutine of Scanner.Start.
ReportLoop ==
    /\ CASE reportPc = "select" -> ReportLoopSelect
         [] reportPc = "find"   -> SweepAndBlockFind(count)
         [] reportPc = "report" -> SweepAndBlockReport
         [] OTHER               -> FALSE
    /\ UNCHANGED <<envVars, scanVars, unlockerPc, httpVars, sweep, resolving, clam>>

\* ------------------------------------------------------ the HTTP handlers

Statuses == {SkylinkStatusNew, SkylinkStatusScanning, SkylinkStatusComplete,
             SkylinkStatusUnreported}
Categories == {"malicious", "bogus"}

StatusIsValid(s) ==
    s \in {SkylinkStatusNew, SkylinkStatusScanning, SkylinkStatusComplete}

CategoryIsValid(s) == s \in {"safe", "malicious", "suspicious", "pua"}

\* The handler answers and its request slot is free again.
Respond(r, op, arg, code, err, fault) ==
    /\ reqs' = [reqs EXCEPT ![r] = IdleRequest]
    /\ last' = Event(op, arg, code, err, 0, fault)

\* A request arrives and takes the first free slot.  The server that is shut
\* down with the context accepts no new request.
Accept(r) ==
    /\ ~ctxDone
    /\ nreq < MaxRequests
    /\ nreq' = nreq + 1
    /\ reqs[r] = IdleRequest
    /\ \A q \in Requests : reqs[q] = IdleRequest => r = "r1" \/ q # "r1"

\* The records the collection will hold once the pending inserts are done.
Room == Len(skylinks) + Cardinality({q \in Requests : reqs[q].op = "POST"})

\* POST /scan/:skylink up to the FindOne of SkylinkCreate.
ScanPOST(r, s) ==
    /\ Accept(r)
    /\ LET p == parseSkylink(s, now) IN
       IF p.err # "nil"
       THEN Respond(r, "ScanPOST", s, 400, p.err, FALSE)
       ELSE /\ ByHash(skylinks, p.sl.Hash) # {} \/ Room < MaxItems
            /\ \E storeErr \in BOOLEAN :
                 LET findErr == IF storeErr THEN ErrStore
                                ELSE FindOne(skylinks, ByHash(skylinks, p.sl.Hash)).err
                     err == SkylinkCreateFound(findErr)
                 IN  IF err # "nil"
                     THEN Respond(r, "ScanPOST", s, 500, err, storeErr)
                     ELSE /\ reqs' = [reqs EXCEPT ![r] = [op |-> "POST", sl |-> p.sl]]
                          /\ last' = NoEvent
    /\ UNCHANGED <<skylinks, envVars, scanVars, unlockerPc, reportVars, blocked,
                   sweep, resolving, clam>>

\* POST /scan/:skylink from the InsertOne of SkylinkCreate to the answer.
ScanPOSTInsert(r) ==
    /\ reqs[r].op = "POST"
    /\ \E storeErr \in BOOLEAN :
         LET c == IF storeErr THEN [coll |-> skylinks, err |-> ErrStore]
                  ELSE SkylinkCreateInsert(skylinks, reqs[r].sl)
         IN  /\ skylinks' = c.coll
             /\ IF c.err # "nil"
                THEN Respond(r, "ScanPOST", reqs[r].sl.Skylink, 500, c.err, storeErr)
                ELSE Respond(r, "ScanPOST", reqs[r].sl.Skylink, 200, "nil", FALSE)
    /\ UNCHANGED <<envVars, scanVars, unlockerPc, reportVars, nreq, blocked, sweep, resolving, clam>>

\* The status transitions ScanPUT refuses.
InvalidTransition(old, status) ==
    \/ old # SkylinkStatusNew /\ status = SkylinkStatusNew
    \/ old = SkylinkStatusComplete /\ status = SkylinkStatusScanning

\* Seeded fault for C4_CompleteHasNoSkylink: an update that keeps the skylink
\* string of a completed record.
UpdatedKeepsSkylink(rec, status, category, t) ==
    [rec EXCEPT !.Status = status, !.Category = category, !.Timestamp = t]

\* The record ScanPUT saves.
Updated(rec, status, category, t) ==
    LET s1 == IF status = SkylinkStatusComplete THEN [rec EXCEPT !.Skylink = ""]
              ELSE rec
    IN  [s1 EXCEPT !.Status = status, !.Category = category, !.Timestamp = t]

\* PUT /scan/:skylink up to the call of SkylinkSave.
ScanPUT(r, s, status, category) ==
    /\ Accept(r)
    /\ LET p == parseSkylink(s, now) IN
       IF p.err # "nil" THEN Respond(r, "ScanPUT", s, 400, p.err, FALSE)
       ELSE IF ~StatusIsValid(status)
       THEN Respond(r, "ScanPUT", s, 400, "invalid status", FALSE)
       ELSE IF ~CategoryIsValid(category)
       THEN Respond(r, "ScanPUT", s, 400, "invalid category", FALSE)
       ELSE \E storeErr \in BOOLEAN :
              LET f == IF storeErr THEN [err |-> ErrStore, doc |-> NoSkylink]
                       ELSE DBSkylink(skylinks, p.sl.Skylink)
              IN  IF f.err = ErrNoDocuments
                  THEN Respond(r, "ScanPUT", s, 404, f.err, FALSE)
                  ELSE IF f.err # "nil"
                  THEN Respond(r, "ScanPUT", s, 500, f.err, TRUE)
                  ELSE IF InvalidTransition(f.doc.Status, status)
                  THEN Respond(r, "ScanPUT", s, 400, "invalid status transition", FALSE)
                  ELSE /\ reqs' = [reqs EXCEPT ![r] =
                                     [op |-> "PUT",
                                      sl |-> Updated(f.doc, status, category, now)]]
                       /\ last' = NoEvent
    /\ UNCHANGED <<skylinks, envVars, scanVars, unlockerPc, reportVars, blocked,
                   sweep, resolving, clam>>

\* PUT /scan/:skylink from SkylinkSave to the answer.
ScanPUTSave(r) ==
    /\ reqs[r].op = "PUT"
    /\ \E storeErr \in BOOLEAN :
         LET sv == IF storeErr THEN [coll |-> skylinks, err |-> "failed to save"]
                   ELSE SkylinkSave(skylinks, reqs[r].sl)
         IN  /\ skylinks' = sv.coll
             /\ IF sv.err # "nil"
                THEN Respond(r, "ScanPUT", reqs[r].sl.Skylink, 500, sv.err, storeErr)
                ELSE Respond(r, "ScanPUT", reqs[r].sl.Skylink, 200, "nil", FALSE)
    /\ UNCHANGED <<envVars, scanVars, unlockerPc, reportVars, nreq, blocked, sweep, resolving, clam>>

\* ---------------------------------------------------------- the program

Next ==
    \/ Tick
    \/ ScanLoop
    \/ StartUnlocker
    \/ ReportLoop
    \/ \E r \in Requests, s \in SkylinkStrings : ScanPOST(r, s)
    \/ \E r \in Requests : ScanPOSTInsert(r)
    \/ \E r \in Requests, s \in SkylinkStrings, status \in Statuses,
          category \in Categories : ScanPUT(r, s, status, category)
    \/ \E r \in Requests : ScanPUTSave(r)

\* The program as main starts it: nobody cancels the context.
Spec == Init /\ [][Next]_vars

\* The program whose context the owner cancels.
NextCancel == Next \/ Cancel \/ CloseAbort
SpecCancel == Init /\ [][NextCancel]_vars

\* ------------------------------------- SweepAndScan holding a locked record

\* The record a POST of s at time t creates, as document id.
Created(id, s, t) == [parseSkylink(s, t).sl EXCEPT !.ID = id]

\* SweepAndLock has handed the record of "a" to SweepAndScan.
InitLocked ==
    /\ skylinks = <<Set(Created(1, "a", 1), [Status |-> SkylinkStatusScanning])>>
    /\ now = 1
    /\ ticker = FALSE
    /\ ctxDone = FALSE
    /\ abort = "open"
    /\ scanPc = "scan"
    /\ sl = skylinks[1]
    /\ first = FALSE
    /\ sleepLength = sleepBetweenScans
    /\ numSubsequentErrs = 0
    /\ unlockerPc = "select"
    /\ reportPc = "select"
    /\ rsl = NoSkylink
    /\ count = 0
    /\ rfirst = TRUE
    /\ reqs = [r \in Requests |-> IdleRequest]
    /\ nreq = 1
    /\ blocked = {}
    /\ sweep = NoSweep
    /\ resolving = NoResolving
    /\ clam = NoClam
    /\ last = Event("SweepAndLock", "a", 0, "nil", 0, FALSE)

SpecLocked == (Init \/ InitLocked) /\ [][Next]_vars

\* ------------------------------------------ concurrent callers of SweepAndLock

\* The skylinks of the records the collection starts with.
SweepSkylinks == <<"a", "v">>

\* A record in status st, as the program stores it.
Stored(id, st) ==
    Set(Created(id, SweepSkylinks[id], 1),
        [Status |-> st,
         Skylink |-> IF st = SkylinkStatusComplete THEN "" ELSE SweepSkylinks[id],
         Infected |-> (st = SkylinkStatusUnreported)])

\* The collections of up to MaxItems records, in every status.
SweepStores ==
    UNION {{[i \in 1..k |-> Stored(i, st[i])] : st \in [1..k -> Statuses]} :
           k \in {j \in 0..Len(SweepSkylinks) : j <= MaxItems}}

InitSweep ==
    /\ skylinks \in SweepStores
    /\ now = 1
    /\ ticker = FALSE
    /\ ctxDone = FALSE
    /\ abort = "open"
    /\ scanPc = "select"
    /\ sl = NoSkylink
    /\ first = TRUE
    /\ sleepLength = sleepBetweenScans
    /\ numSubsequentErrs = 0
    /\ unlockerPc = "select"
    /\ reportPc = "select"
    /\ rsl = NoSkylink
    /\ count = 0
    /\ rfirst = TRUE
    /\ reqs = [r \in Requests |-> IdleRequest]
    /\ nreq = 0
    /\ blocked = {}
    /\ sweep = [K |-> Cardinality(ByStatus(skylinks, SkylinkStatusNew)),
                call |-> [c \in Callers |-> [IdleCaller EXCEPT !.pc = "update"]]]
    /\ resolving = NoResolving
    /\ clam = NoClam
    /\ last = NoEvent

\* Caller c is done with SweepAndLock, which returned (rec, err).
SweepAndLockReturns(c, rec, err, fault) ==
    /\ sweep' = [sweep EXCEPT !.call[c] = [pc |-> "done", sl |-> rec, err |-> err]]
    /\ last' = Event("SweepAndLock", c, 0, err, 0, fault)

\* Caller c takes the next database call of DB.SweepAndLock.
CallSweepAndLock(c) ==
    /\ CASE sweep.call[c].pc = "update" ->
              \E storeErr \in BOOLEAN :
                IF storeErr
                THEN /\ SweepAndLockReturns(c, NoSkylink, ErrStore, TRUE)
                     /\ UNCHANGED skylinks
                ELSE LET ur == SweepAndLockUpdate(skylinks, now) IN
                     /\ skylinks' = ur.coll
                     /\ IF ur.UpsertedCount = 0
                        THEN SweepAndLockReturns(c, NoSkylink, ErrNoDocumentsFound, FALSE)
                        ELSE /\ sweep' = [sweep EXCEPT !.call[c] =
                                            [pc |-> "fetch",
                                             sl |-> [NoSkylink EXCEPT !.ID = ur.UpsertedID],
                                             err |-> ""]]
                             /\ last' = NoEvent
         [] sweep.call[c].pc = "fetch" ->
              \E storeErr \in BOOLEAN :
                LET r == IF storeErr THEN [err |-> ErrStore, doc |-> NoSkylink]
                         ELSE SkylinkByID(skylinks, sweep.call[c].sl.ID)
                IN  /\ SweepAndLockReturns(c, r.doc, r.err, storeErr)
                    /\ UNCHANGED skylinks
         [] OTHER -> FALSE
    /\ UNCHANGED <<envVars, scanVars, unlockerPc, reportVars, httpVars, blocked,
                   resolving, clam>>

NextSweep == \E c \in Callers : CallSweepAndLock(c)

SpecSweep == InitSweep /\ [][NextSweep]_vars

\* ------------------------------------------------- the reporter on its own

\* The reporting goroutine over a store that nothing else changes: every
\* collection of up to MaxItems records, in every status.
InitReport ==
    /\ skylinks \in SweepStores
    /\ now = 1
    /\ ticker = FALSE
    /\ ctxDone = FALSE
    /\ abort = "open"
    /\ scanPc = "select"
    /\ sl = NoSkylink
    /\ first = TRUE
    /\ sleepLength = sleepBetweenScans
    /\ numSubsequentErrs = 0
    /\ unlockerPc = "select"
    /\ reportPc = "select"
    /\ rsl = NoSkylink
    /\ count = 0
    /\ rfirst = TRUE
    /\ reqs = [r \in Requests |-> IdleRequest]
    /\ nreq = 0
    /\ blocked = {}
    /\ sweep = NoSweep
    /\ resolving = NoResolving
    /\ clam = NoClam
    /\ last = NoEvent

NextReport == Tick \/ ReportLoop

\* A step of the reporting goroutine in which the blocker answers 200 and the
\* store's calls succeed.
ReportLoopUnhindered ==
    ReportLoop /\ ~last'.fault /\ last'.err # "blocker error"

\* time.After(sleepBetweenReports) fires and every call of SweepAndBlock
\* returns, so the goroutine, which nothing blocks, keeps taking steps.  The
\* fairness is on the steps without a failure: a failure is the
\* environment's choice, and a sweep that finds nothing to report returns to
\* the state it started from.
SpecReport == InitReport /\ [][NextReport]_vars /\ WF_vars(ReportLoopUnhindered)

\* ------------------------------------------- the skylink parser on its own

\* What a portal can put in the skynet-skylink header.
Headers == {"a", "b", "v", "w", "x", "y", "bad", ""}

\* The portals: an answer for every v2 skylink.
Portals == [V2Strings -> {Answer(h) : h \in Headers} \cup {HeadFailed}]

\* A caller is about to parse a skylink string against some portal.
InitResolve ==
    /\ skylinks = <<>>
    /\ now = 1
    /\ ticker = FALSE
    /\ ctxDone = FALSE
    /\ abort = "open"
    /\ scanPc = "select"
    /\ sl = NoSkylink
    /\ first = TRUE
    /\ sleepLength = sleepBetweenScans
    /\ numSubsequentErrs = 0
    /\ unlockerPc = "select"
    /\ reportPc = "select"
    /\ rsl = NoSkylink
    /\ count = 0
    /\ rfirst = TRUE
    /\ reqs = [r \in Requests |-> IdleRequest]
    /\ nreq = 0
    /\ blocked = {}
    /\ sweep = NoSweep
    /\ \E s \in SkylinkStrings, portal \in Portals :
         resolving = [NoResolving EXCEPT !.pc = "call", !.skylink = s,
                                         !.portal = portal]
    /\ clam = NoClam
    /\ last = NoEvent

\* The caller calls resolveSkylinkV2 on the string's skylink.
CallResolveSkylinkV2 ==
    /\ resolving.pc = "call"
    /\ LET r == resolveSkylinkV2(resolving.skylink, resolving.portal) IN
       resolving' = [resolving EXCEPT !.pc = "resolved", !.err = r.err,
                                      !.v1 = r.skylink, !.heads = r.heads]
    /\ UNCHANGED <<skylinks, envVars, scanVars, unlockerPc, reportVars, httpVars,
                   blocked, sweep, clam, last>>

\* The caller calls LoadString on its record.
CallLoadString ==
    /\ resolving.pc = "call"
    /\ LET r == LoadString(resolving.sl, resolving.skylink, resolving.portal, now) IN
       resolving' = [resolving EXCEPT !.pc = "loaded", !.err = r.err, !.sl = r.sl]
    /\ UNCHANGED <<skylinks, envVars, scanVars, unlockerPc, reportVars, httpVars,
                   blocked, sweep, clam, last>>

NextResolve == CallResolveSkylinkV2 \/ CallLoadString

SpecResolve == InitResolve /\ [][NextResolve]_vars

\* ------------------------------------------ LoadString on a record in use

\* The records LoadString is called on: the zero Skylink, and records whose
\* status or timestamp is already set.
Receivers ==
    {[NoSkylink EXCEPT !.Status = st, !.Timestamp = ts] :
        st \in Statuses \cup {""}, ts \in {ZeroTime, 1}}

\* A caller is about to call LoadString on one of these records, later than
\* the time the record was stamped.
InitLoad ==
    /\ skylinks = <<>>
    /\ now = 2
    /\ ticker = FALSE
    /\ ctxDone = FALSE
    /\ abort = "open"
    /\ scanPc = "select"
    /\ sl = NoSkylink
    /\ first = TRUE
    /\ sleepLength = sleepBetweenScans
    /\ numSubsequentErrs = 0
    /\ unlockerPc = "select"
    /\ reportPc = "select"
    /\ rsl = NoSkylink
    /\ count = 0
    /\ rfirst = TRUE
    /\ reqs = [r \in Requests |-> IdleRequest]
    /\ nreq = 0
    /\ blocked = {}
    /\ sweep = NoSweep
    /\ \E s \in SkylinkStrings, rec \in Receivers :
         resolving = [NoResolving EXCEPT !.pc = "call", !.skylink = s, !.sl = rec]
    /\ clam = NoClam
    /\ last = NoEvent

NextLoad == Tick \/ CallLoadString

SpecLoad == InitLoad /\ [][NextLoad]_vars

\* ---------------------------------------------------- ClamAV.Scan on its own

\* The longest stream of results.
MaxResults == 2

\* What ClamAV writes in a result.
Descriptions == {"", "bad bad virus", "other"}

\* The results of a stream.
StreamResults ==
    [Status : {RES_OK, RES_FOUND, RES_ERROR}, Description : Descriptions]

\* The streams of up to MaxResults results.
Streams == UNION {[1..n -> StreamResults] : n \in 0..MaxResults}

\* A caller is about to call Scan; ScanStream will fail or deliver a stream.
InitClam ==
    /\ skylinks = <<>>
    /\ now = 1
    /\ ticker = FALSE
    /\ ctxDone = FALSE
    /\ abort = "open"
    /\ scanPc = "select"
    /\ sl = NoSkylink
    /\ first = TRUE
    /\ sleepLength = sleepBetweenScans
    /\ numSubsequentErrs = 0
    /\ unlockerPc = "select"
    /\ reportPc = "select"
    /\ rsl = NoSkylink
    /\ count = 0
    /\ rfirst = TRUE
    /\ reqs = [r \in Requests |-> IdleRequest]
    /\ nreq = 0
    /\ blocked = {}
    /\ sweep = NoSweep
    /\ resolving = NoResolving
    /\ \E openErr \in {"nil", "the error we expect"}, result \in Streams :
         clam = [NoClam EXCEPT !.pc = "call", !.openErr = openErr,
                               !.result = IF openErr = "nil" THEN result ELSE <<>>]
    /\ last = NoEvent

\* The caller calls Scan.
CallScan ==
    /\ clam.pc = "call"
    /\ LET r == Scan(clam.openErr, clam.result) IN
       clam' = [clam EXCEPT !.pc = "returned", !.infected = r.infected,
                            !.description = r.description, !.err = r.err]
    /\ UNCHANGED <<skylinks, envVars, scanVars, unlockerPc, reportVars, httpVars,
                   blocked, sweep, resolving, last>>

NextClam == CallScan

SpecClam == InitClam /\ [][NextClam]_vars

\* ------------------------------------ the goroutines and the cancellation

\* The goroutines of Start and StartUnlocker over a collection of up to
\* MaxItems records in any status, the scan loop either about to start or
\* inside SweepAndScan with a record it has locked.
InitLoops ==
    /\ skylinks \in SweepStores
    /\ now = 1
    /\ ticker \in BOOLEAN
    /\ ctxDone = FALSE
    /\ abort = "open"
    /\ \/ /\ scanPc = "select"
          /\ sl = NoSkylink
          /\ first = TRUE
       \/ /\ scanPc = "scan"
          /\ \E i \in ByStatus(skylinks, SkylinkStatusScanning) : sl = skylinks[i]
          /\ first = FALSE
    /\ sleepLength = sleepBetweenScans
    /\ numSubsequentErrs = 0
    /\ unlockerPc = "select"
    /\ reportPc = "select"
    /\ rsl = NoSkylink
    /\ count = 0
    /\ rfirst = TRUE
    /\ reqs = [r \in Requests |-> IdleRequest]
    /\ nreq = 0
    /\ blocked = {}
    /\ sweep = NoSweep
    /\ resolving = NoResolving
    /\ clam = NoClam
    /\ last = NoEvent

NextLoops == Tick \/ ScanLoop \/ StartUnlocker \/ ReportLoop \/ Cancel \/ CloseAbort

\* The watcher goroutine of Start is blocked on nothing but ctx.Done(), so
\* it closes abort once the context is cancelled.  Nothing is assumed about
\* the other goroutines: a call of the scanner may never return.
SpecAbort == InitLoops /\ [][NextLoops]_vars /\ WF_vars(CloseAbort)

\* Every goroutine keeps running: none of them waits for anything but its
\* timer, its ticker or the context.  The fairness is on the steps in which
\* the store answers: a failure of the store is the environment's choice.
SpecLoops ==
    /\ InitLoops
    /\ [][NextLoops]_vars
    /\ WF_vars(CloseAbort)
    /\ WF_vars(ScanLoop /\ ~last'.fault)
    /\ WF_vars(StartUnlocker /\ ~last'.fault)
    /\ WF_vars(ReportLoop /\ ~last'.fault)

\* ------------------------------------------- SweepAndScan on a locked record

\* SweepAndLock has handed a record to SweepAndScan: a record in status
\* scanning, also one whose skylink string is empty.
InitScan ==
    /\ \E c \in SweepStores :
         \E i \in ByStatus(c, SkylinkStatusScanning) :
           \E s \in {c[i].Skylink, ""} :
             /\ skylinks = [c EXCEPT ![i].Skylink = s]
             /\ sl = skylinks[i]
    /\ now = 1
    /\ ticker = FALSE
    /\ ctxDone = FALSE
    /\ abort = "open"
    /\ scanPc = "locked"
    /\ first = FALSE
    /\ sleepLength = sleepBetweenScans
    /\ numSubsequentErrs = 0
    /\ unlockerPc = "select"
    /\ reportPc = "select"
    /\ rsl = NoSkylink
    /\ count = 0
    /\ rfirst = TRUE
    /\ reqs = [r \in Requests |-> IdleRequest]
    /\ nreq = 0
    /\ blocked = {}
    /\ sweep = NoSweep
    /\ resolving = NoResolving
    /\ clam = NoClam
    /\ last = NoEvent

NextScan == Tick \/ ScanLoop

SpecScan == InitScan /\ [][NextScan]_vars

\* ------------------------------------------------------------- properties

\* C1: when N concurrent callers of SweepAndLock have all returned, with K
\* records new at the start and no database call failed, no two callers hold
\* the same record and exactly min(N, K) records were handed out.
C1_DistinctClaims ==
    LET done == {c \in Callers : sweep.call[c].pc = "done"}
        got  == {c \in done : sweep.call[c].err = "nil"}
    IN  (sweep # NoSweep /\ done = Callers
         /\ \A c \in Callers : sweep.call[c].err # ErrStore)
        => /\ \A c, d \in got : c # d => sweep.call[c].sl.ID # sweep.call[d].sl.ID
           /\ Cardinality({sweep.call[c].sl.ID : c \in got})
                = Min({Cardinality(Callers), sweep.K})

\* C2: a call of SweepAndLock that the database serves returns
\* ErrNoDocumentsFound exactly when no record is new; otherwise it returns no
\* error, exactly one record moved from new to scanning with the time of the
\* call as its timestamp, and that record is the one returned.
C2_SweepAndLock ==
    [][(scanPc = "select" /\ last'.op \in {"SweepAndScan", "SweepAndLock"}
        /\ ~last'.fault)
       => IF ByStatus(skylinks, SkylinkStatusNew) = {}
          THEN last'.err = ErrNoDocumentsFound /\ skylinks' = skylinks
          ELSE /\ last'.err # ErrNoDocumentsFound
               /\ \E i \in ByStatus(skylinks, SkylinkStatusNew) :
                    /\ skylinks' = [skylinks EXCEPT ![i] =
                                      Set(@, [Status |-> SkylinkStatusScanning,
                                              Timestamp |-> now])]
                    /\ sl' = skylinks'[i]]_vars

C4_CompleteHasNoSkylink ==
    \A i \in 1..Len(skylinks) :
        skylinks[i].Status = SkylinkStatusComplete => skylinks[i].Skylink = ""

\* C4, its case: the reporter has completed an infected record.
C4_Witness ==
    \E i \in 1..Len(skylinks) :
        /\ skylinks[i].Status = SkylinkStatusComplete
        /\ skylinks[i].Infected
        /\ skylinks[i].Skylink = ""
        /\ blocked # {}

\* C5: every record in status unreported is infected; a clean verdict leaves
\* no record unreported.
C5_UnreportedIsInfected ==
    \A i \in 1..Len(skylinks) :
        skylinks[i].Status = SkylinkStatusUnreported => skylinks[i].Infected

\* C5, its case: SweepAndScan has saved an infected verdict.
C5_Witness ==
    /\ last.op = "SweepAndScan"
    /\ last.err = "nil"
    /\ \E i \in 1..Len(skylinks) :
         skylinks[i].Status = SkylinkStatusUnreported /\ skylinks[i].Infected

\* C6: a SkylinkCreate that the database serves returns no error, and the
\* collection then holds exactly one record with the hash.
C6_CreateIsIdempotent ==
    (last.op = "ScanPOST" /\ last.code # 400 /\ ~last.fault)
    => /\ last.err = "nil"
       /\ Cardinality(ByHash(skylinks, parseSkylink(last.arg, now).sl.Hash)) = 1

\* C7: POST /scan/:skylink for a skylink whose hash is in the collection
\* answers 200, and the collection still holds one record with the hash.
C7_DuplicatePostIs200 ==
    [][LET p == parseSkylink(last'.arg, now) IN
       (last'.op = "ScanPOST" /\ ~last'.fault /\ p.err = "nil"
        /\ ByHash(skylinks, p.sl.Hash) # {})
       => /\ last'.code = 200
          /\ Cardinality(ByHash(skylinks', p.sl.Hash)) = 1]_vars

\* C8: a POST of a skylink whose hash is in the collection leaves every
\* record as it is.
C8_EnqueueKeepsExisting ==
    [][LET p == parseSkylink(last'.arg, now) IN
       (last'.op = "ScanPOST" /\ p.err = "nil" /\ ByHash(skylinks, p.sl.Hash) # {})
       => skylinks' = skylinks]_vars

\* C8, its case: a POST was answered for a hash whose record is scanning
\* under another skylink string.
C8_Witness ==
    /\ last.op = "ScanPOST"
    /\ last.code # 400
    /\ ~last.fault
    /\ \E i \in ByHash(skylinks, parseSkylink(last.arg, now).sl.Hash) :
         /\ skylinks[i].Status = SkylinkStatusScanning
         /\ skylinks[i].Skylink # last.arg

\* C9: right after CancelStuckScans returned without error no record is
\* scanning with a timestamp older than now - CancelScanAfter.
C9_NoOverdueScan ==
    (last.op = "CancelStuckScans" /\ last.err = "nil")
    => \A i \in 1..Len(skylinks) :
         ~(/\ skylinks[i].Status = SkylinkStatusScanning
           /\ skylinks[i].Timestamp < now - CancelScanAfter)

\* C10: CancelStuckScans changes only records that are scanning with a
\* timestamp older than now - CancelScanAfter, and returns the number of
\* records it changed.
C10_CancelOnlyOverdue ==
    [][(last'.op = "CancelStuckScans" /\ last'.err = "nil")
       => /\ Len(skylinks') = Len(skylinks)
          /\ \A i \in 1..Len(skylinks) :
               skylinks'[i] # skylinks[i]
               => /\ skylinks[i].Status = SkylinkStatusScanning
                  /\ skylinks[i].Timestamp < now - CancelScanAfter
          /\ last'.n = Cardinality({i \in 1..Len(skylinks) :
                                      skylinks'[i] # skylinks[i]})]_vars

\* The step of the scan loop in which the scanner returned the given outcome
\* for the held record and the save succeeded.
ScanSaved(outcome) ==
    /\ scanPc = "scan"
    /\ last'.op = "SweepAndScan"
    /\ last'.arg = outcome
    /\ last'.err = "nil"

\* C11: when the scanner returns a clean verdict and the save succeeds, the
\* saved item is complete, has an empty skylink, is not infected, has the
\* reported size, has ScannedAllContent true exactly when the scanned size
\* equals the size, and has ScannedAllOffsets false.
C11_CleanVerdict ==
    [][\A outcome \in {"clean", "partial"} :
         ScanSaved(outcome) =>
           /\ ByID(skylinks', sl.ID) # {}
           /\ \A i \in ByID(skylinks', sl.ID) :
                /\ skylinks'[i].Status = SkylinkStatusComplete
                /\ skylinks'[i].Skylink = ""
                /\ ~skylinks'[i].Infected
                /\ skylinks'[i].Size = ScanResult(outcome).size
                /\ skylinks'[i].ScannedAllContent =
                     (ScanResult(outcome).scannedSize = ScanResult(outcome).size)
                /\ ~skylinks'[i].ScannedAllOffsets]_vars

\* A clean verdict that read only a part of the content has been saved.
C11_Witness ==
    /\ last.op = "SweepAndScan"
    /\ last.arg = "partial"
    /\ last.err = "nil"
    /\ \E i \in 1..Len(skylinks) :
         /\ skylinks[i].Status = SkylinkStatusComplete
         /\ skylinks[i].Size = 2
         /\ ~skylinks[i].ScannedAllContent

\* C12: when the scanner returns an infected verdict and the save succeeds,
\* the saved item is unreported, infected, and keeps the non-empty skylink
\* the record had when it was locked.
C12_InfectedVerdict ==
    [][ScanSaved("infected") =>
         /\ sl.Skylink # ""
         /\ ByID(skylinks', sl.ID) # {}
         /\ \A i \in ByID(skylinks', sl.ID) :
              /\ skylinks'[i].Status = SkylinkStatusUnreported
              /\ skylinks'[i].Infected
              /\ skylinks'[i].Skylink = sl.Skylink]_vars

\* An infected verdict has been saved.
C12_Witness ==
    /\ last.op = "SweepAndScan"
    /\ last.arg = "infected"
    /\ last.err = "nil"
    /\ \E i \in 1..Len(skylinks) :
         /\ skylinks[i].Infected
         /\ skylinks[i].InfectionDescription = "FOUND"

\* C13: when the scanner fails for a locked record and the save succeeds, the
\* saved item is new, keeps the non-empty skylink it was locked with and has
\* the current time as its timestamp, so the filter of SweepAndLock matches
\* it again.
C13_ScanErrorUnlocks ==
    [][ScanSaved("error") =>
         /\ sl.Skylink # ""
         /\ ByID(skylinks', sl.ID) # {}
         /\ \A i \in ByID(skylinks', sl.ID) :
              /\ skylinks'[i].Status = SkylinkStatusNew
              /\ skylinks'[i].Skylink = sl.Skylink
              /\ skylinks'[i].Timestamp = now
              /\ skylinks'[i].Timestamp >= sl.Timestamp
              /\ i \in ByStatus(skylinks', SkylinkStatusNew)]_vars

\* A failed scan has been saved after the clock moved on: the record is new
\* again with a later timestamp than it was locked with.
C13_Witness ==
    /\ last.op = "SweepAndScan"
    /\ last.arg = "error"
    /\ last.err = "nil"
    /\ \E i \in 1..Len(skylinks) :
         /\ skylinks[i].Status = SkylinkStatusNew
         /\ skylinks[i].Skylink = "a"
         /\ skylinks[i].ID = 1
         /\ skylinks[i].Timestamp = 2

\* C14: when an iteration of the scan loop ends in error right after
\* iterations that ended in error, its sleep is sleepOnErrStep times ten to
\* the length of that streak, capped at sleepOnErrSteps: 100 ms, 1 s, 10 s,
\* then 100 s.  numSubsequentErrs is nonzero before an iteration exactly when
\* the iteration before it ended in error.
C14_Backoff ==
    [][(/\ scanPc = "select"
        /\ numSubsequentErrs >= 1
        /\ last'.op = "SweepAndScan"
        /\ last'.err \notin {"nil", ErrNoDocumentsFound})
       => sleepLength' = sleepOnErrStep * (10 ^ numSubsequentErrs)]_vars

\* C15: when the blocker has accepted a record, the reporter's single update
\* makes that record complete with an empty skylink and touches no other
\* record; in no state is a record complete with a skylink or unreported
\* without one.
C15_ReportInOneWrite ==
    /\ [](\A i \in 1..Len(skylinks) :
            /\ skylinks[i].Status = SkylinkStatusComplete => skylinks[i].Skylink = ""
            /\ skylinks[i].Status = SkylinkStatusUnreported => skylinks[i].Skylink # "")
    /\ [][(reportPc = "report" /\ last'.op = "UpdateOneSkylink") =>
            /\ rsl.Skylink \in blocked'
            /\ ByID(skylinks, rsl.ID) # {}
            /\ Len(skylinks') = Len(skylinks)
            /\ \A i \in 1..Len(skylinks) :
                 IF i \in ByID(skylinks, rsl.ID)
                 THEN /\ skylinks'[i].Status = SkylinkStatusComplete
                      /\ skylinks'[i].Skylink = ""
                 ELSE skylinks'[i] = skylinks[i]]_vars

\* The reporter has just marked a record as reported.
C15_Witness ==
    /\ last.op = "UpdateOneSkylink"
    /\ last.arg = "a"
    /\ "a" \in blocked
    /\ \E i \in 1..Len(skylinks) :
         /\ skylinks[i].Status = SkylinkStatusComplete
         /\ skylinks[i].Infected
         /\ skylinks[i].Skylink = ""
         /\ skylinks[i].Hash = HashObject(SkylinkOf("a").root)

\* The blocker answers 200 and the store's calls succeed.
ReporterUnhindered == ~last.fault /\ last.err # "blocker error"

\* C16: over a fixed set of records, with a blocker that always answers 200
\* and a store whose calls succeed, every sweep of the reporter returns and
\* from some point on no record is unreported.
C16_ReporterProgress ==
    []ReporterUnhindered =>
        /\ []<>(reportPc = "select")
        /\ <>[](ByStatus(skylinks, SkylinkStatusUnreported) = {})

\* A sweep has reported two records and returned without error.
C16_Witness ==
    /\ last.op = "SweepAndBlock"
    /\ last.err = "nil"
    /\ last.n = 2
    /\ reportPc = "select"
    /\ Cardinality(blocked) = 2
    /\ ByStatus(skylinks, SkylinkStatusUnreported) = {}

\* C17: when the blocker fails for a record, SweepAndBlock returns at once
\* with the error and the number of records it has reported in this sweep;
\* the record stays unreported with its skylink, nothing in the store
\* changes, and nothing more is posted in this sweep.
C17_BlockerFailureStopsSweep ==
    [][(/\ reportPc = "report"
        /\ last'.op = "SweepAndBlock"
        /\ last'.err = "blocker error")
       => /\ last'.n = count
          /\ reportPc' = "select"
          /\ skylinks' = skylinks
          /\ blocked' = blocked
          /\ rsl.Skylink # ""
          /\ \A i \in ByID(skylinks, rsl.ID) :
               /\ skylinks'[i].Status = SkylinkStatusUnreported
               /\ skylinks'[i].Skylink = rsl.Skylink]_vars

\* The blocker has failed for the second record of a sweep: one record has
\* been reported, the other is still unreported.
C17_Witness ==
    /\ last.op = "SweepAndBlock"
    /\ last.err = "blocker error"
    /\ last.n = 1
    /\ Cardinality(blocked) = 1
    /\ Cardinality(ByStatus(skylinks, SkylinkStatusUnreported)) = 1
    /\ \A i \in ByStatus(skylinks, SkylinkStatusUnreported) :
         skylinks[i].Skylink \notin blocked \cup {""}

\* The first k answers of the portal on the way from s are v2 skylinks.
RECURSIVE AnswersV2(_, _, _)
AnswersV2(s, portal, k) ==
    \/ k = 0
    \/ /\ SkylinkOf(s).version = 2
       /\ portal[s].err = "nil"
       /\ SkylinkOf(portal[s].header).version = 2
       /\ AnswersV2(portal[s].header, portal, k - 1)

\* C18: resolving a v2 skylink returns after at most resolveAttempts HEAD
\* requests; when the portal answers each of them with a v2 skylink, a cycle
\* included, the error is "v2 skylinks are nested too deeply".
C18_ResolveDepth ==
    resolving.pc = "resolved" =>
        /\ resolving.heads <= resolveAttempts
        /\ AnswersV2(resolving.skylink, resolving.portal, resolveAttempts) =>
             /\ resolving.err = "v2 skylinks are nested too deeply"
             /\ resolving.heads = resolveAttempts

\* The portal answers v with w and w with v, and the resolution has failed
\* after three requests.
C18_Witness ==
    /\ resolving.pc = "resolved"
    /\ resolving.skylink = "v"
    /\ resolving.portal["v"] = Answer("w")
    /\ resolving.portal["w"] = Answer("v")
    /\ resolving.err = "v2 skylinks are nested too deeply"
    /\ resolving.heads = 3

\* C19: LoadString of a v2 skylink that resolves to the v1 skylink X stores
\* the hash LoadString stores for X itself, and keeps the submitted string as
\* the skylink.
C19_V2HashIsTargetHash ==
    LET r == resolveSkylinkV2(resolving.skylink, resolving.portal) IN
    (/\ resolving.pc = "loaded"
     /\ SkylinkOf(resolving.skylink).version = 2
     /\ r.err = "nil")
    => /\ resolving.err = "nil"
       /\ resolving.sl.Skylink = resolving.skylink
       /\ resolving.sl.Hash =
            LoadString(NoSkylink, r.skylink, resolving.portal, now).sl.Hash

\* The string fails the validation, or is a v2 skylink the program's portal
\* does not resolve.
Unparsable(s) ==
    \/ s = ""
    \/ ~ValidSkylinkHash(s)
    \/ SkylinkOf(s).version \notin {1, 2}
    \/ /\ SkylinkOf(s).version = 2
       /\ resolveSkylinkV2(s, Portal).err # "nil"

C21_AbortClosedDuringScan == (ctxDone /\ scanPc = "scan") ~> (abort = "closed")

\* The abort channel is closed while the scanner call is still in flight.
C21_Witness ==
    /\ ctxDone
    /\ scanPc = "scan"
    /\ sl.Skylink # ""
    /\ abort = "closed"

\* C22: once the context is cancelled, a loop that comes to its select
\* returns: the scan loop starts no SweepAndScan, the unlocker no
\* CancelStuckScans and the reporter no SweepAndBlock; and all three loops
\* end.
C22_LoopsStopOnCancel ==
    /\ [][ctxDone =>
            /\ ~(scanPc = "select" /\ ~first /\ scanPc' # "done" /\ scanVars' # scanVars)
            /\ ~(unlockerPc = "select" /\ last'.op = "CancelStuckScans")
            /\ ~(reportPc = "select" /\ ~rfirst /\ reportPc' # "done"
                                      /\ reportVars' # reportVars)]_vars
    /\ ctxDone ~> (scanPc = "done" /\ unlockerPc = "done" /\ reportPc = "done")

\* C23: the scan loop calls SweepAndLock, and then the scanner, only when its
\* previous SweepAndScan has returned: it holds a record exactly while the
\* one scanner call is in flight.
C23_SingleFlight ==
    /\ [](scanPc = "scan" <=> sl # NoSkylink)
    /\ [][/\ ((last'.op = "SweepAndLock" \/ (last'.op = "SweepAndScan" /\ last'.arg = ""))
               => (scanPc = "select" /\ sl = NoSkylink))
           /\ ((scanPc' = "scan" /\ scanPc # "scan")
               => (scanPc = "select" /\ sl = NoSkylink))]_vars

\* A scan has been saved and the loop has called SweepAndLock again.
C23_Witness ==
    /\ scanPc = "select"
    /\ last.op = "SweepAndScan"
    /\ last.arg = ""
    /\ last.err = ErrNoDocumentsFound
    /\ \E i \in 1..Len(skylinks) :
         /\ skylinks[i].Size = 2
         /\ skylinks[i].Status \in {SkylinkStatusComplete, SkylinkStatusUnreported}

\* C24: a record is created only by POST /scan, in status new with the time
\* of the request; afterwards its fields are changed only by the scan loop
\* (SweepAndLock, the verdict) and by the unlocker, its _id and hash never
\* change, and no record is ever removed.
C24_Lifecycle ==
    [][/\ Len(skylinks') >= Len(skylinks)
       /\ \A i \in 1..Len(skylinks) :
            /\ skylinks'[i].ID = skylinks[i].ID
            /\ skylinks'[i].Hash = skylinks[i].Hash
            /\ skylinks'[i] # skylinks[i] =>
                 last'.op \in {"SweepAndLock", "SweepAndScan", "CancelStuckScans"}
       /\ \A i \in (Len(skylinks) + 1)..Len(skylinks') :
            /\ last'.op = "ScanPOST"
            /\ skylinks'[i].Status = SkylinkStatusNew
            /\ skylinks'[i].Timestamp \in 1..now]_vars

\* C25: while the store answers and the context is not cancelled, a record
\* that is scanning with a timestamp older than now - CancelScanAfter when
\* the unlocker's ticker fires does not stay scanning.
C25_StuckScansReleased ==
    [](~last.fault /\ ~ctxDone) =>
        \A id \in 1..MaxItems :
            (/\ ticker
             /\ unlockerPc = "select"
             /\ \E i \in ByID(skylinks, id) :
                  /\ skylinks[i].Status = SkylinkStatusScanning
                  /\ skylinks[i].Timestamp < now - CancelScanAfter)
            ~> (\A i \in ByID(skylinks, id) :
                  skylinks[i].Status # SkylinkStatusScanning)

\* C26: when a POST comes to its insert after another request has inserted
\* a record with the same hash (both found none before), the duplicate key
\* error is squelched: the answer is 200 and the collection holds one record
\* with the hash.
C26_ConcurrentEnqueue ==
    [][\A r \in Requests :
         (/\ reqs[r].op = "POST"
          /\ reqs'[r] = IdleRequest
          /\ ~last'.fault
          /\ ByHash(skylinks, reqs[r].sl.Hash) # {})
         => /\ last'.op = "ScanPOST"
            /\ last'.code = 200
            /\ Cardinality(ByHash(skylinks', reqs[r].sl.Hash)) = 1]_vars

\* C27: whenever the scanner fails, SweepAndScan returns an error, also when
\* the save that unlocks the record succeeds, and the loop's next sleep is
\* the one after an error, never the zero sleep after a scan.
C27_ScanErrorIsReturned ==
    [][(scanPc = "scan" /\ last'.op = "SweepAndScan" /\ last'.arg = "error")
       => /\ last'.err # "nil"
          /\ sleepLength' = AfterSweep("scan error", 0).sleepLength
          /\ sleepLength' # 0]_vars

\* C28: the first iteration of the scan loop and of the reporting loop runs
\* its sweep without going through the select, so not even a cancelled
\* context stops it; every later iteration goes through the select, the only
\* place where a loop returns.
C28_FirstIterationRuns ==
    [][/\ ((first /\ scanVars' # scanVars)
           => (scanPc = "select" /\ scanPc' # "done" /\ ~first'
               /\ last'.op \in {"SweepAndLock", "SweepAndScan"}))
       /\ ((rfirst /\ reportVars' # reportVars)
           => (reportPc = "select" /\ reportPc' # "done" /\ ~rfirst'))
       /\ (~first => ~first')
       /\ (~rfirst => ~rfirst')
       /\ ((scanPc' = "done" /\ scanPc # "done")
           => (scanPc = "select" /\ ~first /\ ctxDone))
       /\ ((reportPc' = "done" /\ reportPc # "done")
           => (reportPc = "select" /\ ~rfirst /\ ctxDone))]_vars

\* The context was cancelled before the loops ran; the scan loop has made
\* its first call of SweepAndScan all the same.
C28_Witness ==
    /\ ctxDone
    /\ now = 1
    /\ ~first
    /\ rfirst
    /\ scanPc = "select"
    /\ last.op = "SweepAndScan"

\* C29: when SweepAndLock returns a record whose skylink is empty,
\* SweepAndScan returns the error "empty skylink": the scanner is not called
\* and the store is not written, so the record stays as the lock left it, in
\* status scanning.  No record without a skylink ever reaches the scanner.
C29_EmptySkylinkRefused ==
    [][/\ ((scanPc = "locked" /\ sl.Skylink = "" /\ scanPc' # "locked")
           => (/\ scanPc' = "select"
               /\ last' = Event("SweepAndScan", "", 0, "empty skylink", 0, FALSE)
               /\ skylinks' = skylinks
               /\ \A i \in ByID(skylinks, sl.ID) :
                    /\ skylinks'[i] = sl
                    /\ skylinks'[i].Status = SkylinkStatusScanning))
       /\ (scanPc' = "scan" => sl'.Skylink # "")]_vars

\* SweepAndScan has refused a record without a skylink, which is still locked.
C29_Witness ==
    /\ scanPc = "select"
    /\ last.op = "SweepAndScan"
    /\ last.err = "empty skylink"
    /\ \E i \in ByStatus(skylinks, SkylinkStatusScanning) : skylinks[i].Skylink = ""

\* C30: every step that changes the status of a record (the lock, a verdict,
\* the release after a scanner error, the reset of a stuck scan, the
\* reporter's unreported -> complete) sets the record's timestamp to the time
\* of that step.
C30_StatusChangeStamps ==
    [][\A i \in 1..Len(skylinks) :
         (i <= Len(skylinks') /\ skylinks'[i].Status # skylinks[i].Status)
            => (skylinks'[i].Timestamp = now)]_vars

\* C31: an error of the store, the scanner or the blocker never ends a
\* background loop: after a failed SweepAndScan, SweepAndBlock or
\* CancelStuckScans the loop is at its select again, and a loop returns only
\* from its select, when the context is cancelled.
C31_ErrorsKeepLoops ==
    [][/\ ((last'.op = "SweepAndScan" /\ last'.err # "nil") => (scanPc' = "select"))
       /\ ((last'.op = "SweepAndBlock" /\ last'.err # "nil") => (reportPc' = "select"))
       /\ ((last'.op = "CancelStuckScans" /\ last'.err # "nil")
              => (unlockerPc' = "select"))
       /\ ((scanPc' = "done" /\ scanPc # "done") => (ctxDone /\ last' = NoEvent))
       /\ ((reportPc' = "done" /\ reportPc # "done") => (ctxDone /\ last' = NoEvent))
       /\ ((unlockerPc' = "done" /\ unlockerPc # "done")
              => (ctxDone /\ last' = NoEvent))]_vars

\* CancelStuckScans has failed and every loop is still running.
C31_Witness ==
    /\ last.op = "CancelStuckScans"
    /\ last.err = ErrStore
    /\ ~ctxDone
    /\ unlockerPc = "select"
    /\ scanPc # "done"
    /\ reportPc # "done"

\* C32: the reporter posts to the blocker only the skylink of the record it
\* has just read, and the record it reads is stored in status unreported with
\* a non-empty skylink: the empty string, or the skylink of a record read in
\* another status, is never posted.
C32_OnlyUnreportedPosted ==
    [][/\ ((reportPc' = "report" /\ reportPc # "report")
           => (\E i \in 1..Len(skylinks) :
                 /\ skylinks[i] = rsl'
                 /\ skylinks[i].Status = SkylinkStatusUnreported
                 /\ skylinks[i].Skylink # ""))
       /\ ((blocked' # blocked)
           => (/\ reportPc = "report"
               /\ blocked' = blocked \cup {rsl.Skylink}
               /\ rsl.Status = SkylinkStatusUnreported
               /\ rsl.Infected
               /\ rsl.Skylink # ""))
       /\ ("" \notin blocked')]_vars

\* The reporter has posted the skylink of the infected record.
C32_Witness ==
    /\ "a" \in blocked
    /\ last.op \in {"UpdateOneSkylink", "SweepAndBlock"}

\* The skylink strings posted to the blocker that name the content of rec.
PostedFor(rec) ==
    {s \in blocked : /\ parseSkylink(s, now).err = "nil"
                     /\ parseSkylink(s, now).sl.Hash = rec.Hash}

\* C33: a record whose verdict is infected is in status complete only after
\* the blocker has accepted a POST of its skylink; until then it stays
\* unreported with its skylink, so that a later sweep posts it again.
C33_InfectedCompleteWasPosted ==
    \A i \in 1..Len(skylinks) :
        /\ ((skylinks[i].Infected /\ skylinks[i].Status = SkylinkStatusComplete)
               => (PostedFor(skylinks[i]) # {}))
        /\ ((skylinks[i].Infected /\ PostedFor(skylinks[i]) = {})
               => (skylinks[i].Skylink # ""))

\* C34: the save that ends a scan writes only onto a record that is still in
\* status scanning under the lock of this worker (the timestamp of the lock):
\* a record that CancelStuckScans has reset in the meantime is not overwritten.
C34_SaveOnlyOwnClaim ==
    [][(scanPc = "scan" /\ scanPc' = "select" /\ skylinks' # skylinks)
          => (\A i \in ByID(skylinks, sl.ID) :
                /\ skylinks[i].Status = SkylinkStatusScanning
                /\ skylinks[i].Timestamp = sl.Timestamp)]_vars

\* C35: every stored record in status new, scanning or unreported has a
\* non-empty skylink string, and a write that empties the string of a record
\* sets its status to complete; so SweepAndLock never locks a record without
\* a skylink.
C35_PendingHasSkylink ==
    [][\A i \in 1..Len(skylinks') :
         /\ (skylinks'[i].Status # SkylinkStatusComplete => skylinks'[i].Skylink # "")
         /\ ((i <= Len(skylinks) /\ skylinks[i].Skylink # "" /\ skylinks'[i].Skylink = "")
               => (skylinks'[i].Status = SkylinkStatusComplete))]_vars

\* A scanner error has released the record, which still has its skylink.
C35_Witness ==
    /\ last.op = "SweepAndScan"
    /\ last.arg = "error"
    /\ \E i \in ByStatus(skylinks, SkylinkStatusNew) : skylinks[i].Skylink = "a"

\* C36: while the store answers, the scanner returns verdicts, the blocker
\* accepts and the context is not cancelled, every record in status new is
\* eventually complete.
C36_NewIsCompleted ==
    [](~last.fault /\ ~ctxDone /\ last.err # "blocker error" /\ last.arg # "error") =>
        \A id \in 1..MaxItems :
            (\E i \in ByID(skylinks, id) : skylinks[i].Status = SkylinkStatusNew)
            ~> (\E i \in ByID(skylinks, id) :
                  skylinks[i].Status = SkylinkStatusComplete)

\* C37: the abort channel changes once, from open to closed, in a step
\* taken after the context was cancelled; it is closed once the context is
\* cancelled, and nothing closes it again or while the context is live.
C37_AbortClosedOnce ==
    /\ [][(abort' # abort) => (abort = "open" /\ abort' = "closed" /\ ctxDone)]_vars
    /\ [](abort = "closed" => ctxDone)
    /\ (ctxDone ~> [](abort = "closed"))

\* The scan loop has returned and abort is closed.
C37_Witness ==
    /\ abort = "closed"
    /\ scanPc = "done"
    /\ ctxDone

\* C38: LoadString sets the timestamp only when it is zero and the status
\* only when it is empty: on a record with both set it leaves both as they
\* are, on a zero record it sets status new and the time of the call, and a
\* call that fails sets neither.
C38_LoadStringKeepsSetFields ==
    [][(resolving.pc = "call" /\ resolving'.pc = "loaded")
          => (IF resolving'.err = "nil"
              THEN /\ resolving'.sl.Timestamp =
                        (IF resolving.sl.Timestamp = ZeroTime THEN now
                         ELSE resolving.sl.Timestamp)
                   /\ resolving'.sl.Status =
                        (IF resolving.sl.Status = "" THEN SkylinkStatusNew
                         ELSE resolving.sl.Status)
              ELSE /\ resolving'.sl.Timestamp = resolving.sl.Timestamp
                   /\ resolving'.sl.Status = resolving.sl.Status)]_vars

\* LoadString has loaded "a" into a record that was scanning since time 1.
C38_Witness ==
    /\ resolving.pc = "loaded"
    /\ resolving.err = "nil"
    /\ resolving.skylink = "a"
    /\ resolving.sl.Skylink = "a"
    /\ resolving.sl.Status = SkylinkStatusScanning
    /\ resolving.sl.Timestamp = 1
    /\ now >= 2

\* C39: a status change that PUT /scan/:skylink accepts is a step of the flow
\* new -> scanning -> complete: from the stored status to the requested one
\* it is new -> scanning, scanning -> complete, or no change.
C39_PutFollowsFlow ==
    [][\A r \in Requests :
         (reqs[r].op # "PUT" /\ reqs'[r].op = "PUT")
            => (\A i \in ByID(skylinks, reqs'[r].sl.ID) :
                  \/ reqs'[r].sl.Status = skylinks[i].Status
                  \/ /\ skylinks[i].Status = SkylinkStatusNew
                     /\ reqs'[r].sl.Status = SkylinkStatusScanning
                  \/ /\ skylinks[i].Status = SkylinkStatusScanning
                     /\ reqs'[r].sl.Status = SkylinkStatusComplete)]_vars

\* The positions of the results with status FOUND in the stream of the call.
Found == {i \in 1..Len(clam.result) : clam.result[i].Status = RES_FOUND}

\* C40: Scan returns the error of ScanStream as it is; otherwise it returns
\* no error, infected exactly when some result of the stream has status
\* FOUND, and then the description of the first such result.
C40_ScanVerdict ==
    (clam.pc = "returned")
       => (IF clam.openErr # "nil"
           THEN clam.err = clam.openErr /\ ~clam.infected
           ELSE /\ clam.err = "nil"
                /\ (clam.infected <=> (Found # {}))
                /\ (clam.infected
                      => (clam.description = clam.result[Min(Found)].Description)))

\* Scan has returned from a stream with two FOUND results.
C40_Witness ==
    /\ clam.pc = "returned"
    /\ clam.infected
    /\ Len(clam.result) = 2
    /\ Found = {1, 2}
    /\ clam.description = "bad bad virus"
    /\ clam.result[2].Description = "other"

====
